---- MODULE Spec2Model ----
(***************************************************************************)
(* Model of src/main.py: process_spectrum (edge detection, sector          *)
(* boundaries, sector colours), process_folder (the per-file loop and the  *)
(* report) and the __main__ summary.                                       *)
(*                                                                         *)
(* Columns, peaks and boundaries are 0-based as in the source.  Python     *)
(* floats are IEEE doubles; the arithmetic of lines 54 and 78-79 is        *)
(* modelled bit-exactly (round to nearest, ties to even, 53 bits).         *)
(***************************************************************************)
EXTENDS Integers, Sequences, FiniteSets, TLC

\* ------------------------------------------------------------------ bounds
MaxWidth == 32          \* widest image of SpecSpectrum
MaxEdge == 40           \* largest right edge of SpecSectors
MaxSectors == 33        \* largest sector count of SpecSectors
MaxFiles == 2           \* most entries of the input folder in Spec
OtherSectors == 23      \* a caller's sector count besides the default
NarrowMark == 2         \* width of a margin mark inside the right 10%
WideMark == 12          \* width of a margin mark reaching into the left 90%
LimbBits == 20          \* bits per limb of the fixed-point representation

\* ------------------------------------------------------- program constants
MantBits == 53          \* significand of a Python float (IEEE double)
DefaultSectors == 32    \* num_sectors=32
PeakDistance == 20      \* find_peaks(distance=20)
HeightDen == 10         \* find_peaks(height=0.1): height = 1 / HeightDen
Int64Min == -2147483647 \* stands for -2^63 (nan cast to int64 on x86-64),
                        \* which is beyond TLC's integers; only its being
                        \* negative and outside 0..255 is used

Max(a, b) == IF a >= b THEN a ELSE b
Min(a, b) == IF a <= b THEN a ELSE b
Abs(a) == IF a >= 0 THEN a ELSE -a
SetMax(S) == CHOOSE x \in S : \A y \in S : y <= x
SetMin(S) == CHOOSE x \in S : \A y \in S : x <= y

RECURSIVE Pow2(_)
Pow2(n) == IF n = 0 THEN 1 ELSE 2 * Pow2(n - 1)
RECURSIVE BitLen(_)
BitLen(n) == IF n = 0 THEN 0 ELSE 1 + BitLen(n \div 2)

\* --------------------------------------------------- IEEE double arithmetic
\* A non-negative real is held exactly as ip + sum fr[k] * LimbBase^-k, with
\* `sticky` telling that a non-zero remainder lies below the last limb.
\* The fraction has room for MantBits bits below six leading zero bits, and
\* RoundFloat rounds inside its last limb: values from 2^-6 up to 2^9 (every
\* quotient, product and sum of lines 54 and 78-79 within the bounds).
LimbBase == Pow2(LimbBits)
FracLimbs == (MantBits + 6) \div LimbBits + 1
FracBits == FracLimbs * LimbBits

\* the exact quotient a / b
DivFix(a, b) ==
  LET rem[k \in 0..FracLimbs] ==
        IF k = 0 THEN a % b ELSE (rem[k-1] * LimbBase) % b
  IN [ip |-> a \div b,
      fr |-> [k \in 1..FracLimbs |-> (rem[k-1] * LimbBase) \div b],
      sticky |-> rem[FracLimbs] # 0]

\* the exact product i * x, i an integer
MulFix(i, x) ==
  LET cin[j \in 0..FracLimbs] ==
        IF j = FracLimbs THEN 0
        ELSE (i * x.fr[j+1] + cin[j+1]) \div LimbBase
  IN [ip |-> i * x.ip + cin[0],
      fr |-> [j \in 1..FracLimbs |-> (i * x.fr[j] + cin[j]) % LimbBase],
      sticky |-> FALSE]

\* the exact sum l + x, l an integer
AddFix(l, x) == [x EXCEPT !.ip = l + x.ip]

\* round to nearest, ties to even, at MantBits significant bits
RoundFloat(x) ==
  LET lead == IF x.ip > 0 THEN BitLen(x.ip) ELSE BitLen(x.fr[1]) - LimbBits
      drop == FracBits - (MantBits - lead)
  IN IF (x.ip = 0 /\ x.fr[1] = 0) \/ drop < 1 \/ drop > LimbBits
     THEN [x EXCEPT !.sticky = FALSE]
     ELSE
       LET low  == x.fr[FracLimbs]
           unit == Pow2(drop)
           half == unit \div 2
           tail == low % unit
           rnd  == tail \div half
           rest == x.sticky \/ (tail % half # 0)
           lsb  == IF drop = LimbBits
                   THEN (IF FracLimbs = 1 THEN x.ip ELSE x.fr[FracLimbs - 1]) % 2
                   ELSE (low \div unit) % 2
           up   == rnd = 1 /\ (rest \/ lsb = 1)
           kept == low - tail
           cin[j \in 0..FracLimbs] ==
             IF j = FracLimbs THEN 0
             ELSE ((IF j + 1 = FracLimbs THEN kept + unit
                    ELSE x.fr[j+1] + cin[j+1]) \div LimbBase)
       IN IF ~up
          THEN [ip |-> x.ip, fr |-> [x.fr EXCEPT ![FracLimbs] = kept],
                sticky |-> FALSE]
          ELSE [ip |-> x.ip + cin[0],
                fr |-> [j \in 1..FracLimbs |->
                          (IF j = FracLimbs THEN kept + unit
                           ELSE x.fr[j] + cin[j]) % LimbBase],
                sticky |-> FALSE]

FloatDiv(a, b) == RoundFloat(DivFix(a, b))        \* a / b
FloatMulInt(i, x) == RoundFloat(MulFix(i, x))     \* i * x
FloatAddInt(l, x) == RoundFloat(AddFix(l, x))     \* l + x
Trunc(x) == x.ip                                  \* int(x), x >= 0

\* ------------------------------------------------------------------ images
\* A decoded image is column-uniform (every row is the same, so the mean over
\* the rows of line 47 is the row itself): white background, a band of
\* colour `band` over columns [a, b), and a black margin mark over the last
\* `mark` columns.  The three channel sums of one image differ pairwise by
\* different amounts, so two gradient magnitudes are equal as floats exactly
\* when they are equal as rationals, and the comparisons of find_peaks are
\* made on integers.
White == <<255, 255, 255>>
Black == <<0, 0, 0>>
StrongBand == <<200, 30, 30>>
WeakBand == <<250, 250, 250>>

Pixel(img, x) ==
  IF x >= img.w - img.mark THEN Black
  ELSE IF img.a <= x /\ x < img.b THEN img.band
  ELSE White

\* np.mean(avg_colors, axis=1) scaled by 3: the channel sum of every column
ChannelSums(img) ==
  [x \in 0..(img.w - 1) |-> Pixel(img, x)[1] + Pixel(img, x)[2] + Pixel(img, x)[3]]

\* np.max(grayscale) - np.min(grayscale), scaled by 3
GrayRange(S) ==
  LET V == {S[x] : x \in DOMAIN S}
  IN SetMax(V) - SetMin(V)

\* int(width * 0.9)
IgnoreRight(width) == Trunc(FloatMulInt(width, FloatDiv(9, 10)))

\* np.abs(np.gradient(grayscale)) with the right 10% zeroed, scaled by
\* 6 * (GrayRange / 3 + 1e-10): central differences inside, one-sided
\* differences at the two ends (width >= 2)
ModifiedGradient(S, w, ignore_right) ==
  [x \in 0..(w - 1) |->
     IF x >= ignore_right THEN 0
     ELSE IF x = 0 THEN 2 * Abs(S[1] - S[0])
     ELSE IF x = w - 1 THEN 2 * Abs(S[w - 1] - S[w - 2])
     ELSE Abs(S[x + 1] - S[x - 1])]

\* scipy's _local_maxima_1d: `i_ahead` runs over the samples equal to x[i]
RECURSIVE PlateauEnd(_, _, _, _)
PlateauEnd(g, i_ahead, i_max, v) ==
  IF i_ahead < i_max /\ g[i_ahead] = v
  THEN PlateauEnd(g, i_ahead + 1, i_max, v)
  ELSE i_ahead

\* scipy's _local_maxima_1d: the midpoint of every plateau that is strictly
\* above both neighbours; the first and the last sample are never peaks
LocalMaxima(g, w) ==
  {(i + PlateauEnd(g, i + 1, w - 1, g[i]) - 1) \div 2 :
     i \in {k \in 1..(w - 2) :
              /\ g[k - 1] < g[k]
              /\ g[PlateauEnd(g, k + 1, w - 1, g[k])] < g[k]}}

\* height=0.1: gradient_magnitude >= 0.1, i.e. g / (2 * range + 6e-10) >= 1/10
\* on the scaled integers: HeightDen * g >= 2 * range + 6e-10
AboveHeight(g, range, p) == HeightDen * g[p] > 2 * range

\* scipy's _select_by_peak_distance: peaks are visited from the highest
\* down; a visited peak that is still kept drops every peak closer than
\* `distance`.  The order among equal heights is argsort's (quicksort, not
\* stable), so every order is possible: the result is a set of kept sets.
RECURSIVE SelectByPeakDistance(_, _, _)
SelectByPeakDistance(g, kept, todo) ==
  IF todo = {} THEN {kept}
  ELSE UNION {
    LET drop == {q \in kept : q # p /\ Abs(q - p) < PeakDistance}
    IN SelectByPeakDistance(g, kept \ drop, (todo \ drop) \ {p})
    : p \in {q \in todo : \A q2 \in todo : g[q2] <= g[q]}}

\* signal.find_peaks(modified_gradient, height=0.1, distance=20)
FindPeaks(g, w, range) ==
  LET high == {p \in LocalMaxima(g, w) : AboveHeight(g, range, p)}
  IN SelectByPeakDistance(g, high, high)

\* lines 61-67: the two strongest peaks (any two among equals)
StrongestPeaks(g, peaks) ==
  {q \in peaks \X peaks :
     /\ q[1] < q[2]
     /\ \A o \in peaks \ {q[1], q[2]} : g[o] <= g[q[1]] /\ g[o] <= g[q[2]]}

\* lines 61-70: the edges from one outcome of find_peaks
EdgesOf(g, w, ignore_right, peaks) ==
  IF Cardinality(peaks) >= 2
  THEN {<<Min(q[1], q[2]), Min(Max(q[1], q[2]), ignore_right)>> :
          q \in StrongestPeaks(g, peaks)}
  ELSE {<<w \div 4, Min((3 * w) \div 4, ignore_right)>>}

\* lines 47-70 on a decoded image of width >= 2: every (left_edge, right_edge)
\* the run can produce, with the number of peaks found
DetectEdges(S, w, ignore_right) ==
  LET g == ModifiedGradient(S, w, ignore_right)
  IN UNION {{[edges |-> e, n_peaks |-> Cardinality(peaks)] :
               e \in EdgesOf(g, w, ignore_right, peaks)} :
            peaks \in FindPeaks(g, w, GrayRange(S))}

EdgePairs(img) == DetectEdges(ChannelSums(img), img.w, IgnoreRight(img.w))

\* line 79: sector_boundaries[i] = int(left_edge + i * sector_width)
BoundariesFrom(left_edge, sector_width, N) ==
  [i \in 0..N |-> Trunc(FloatAddInt(left_edge, FloatMulInt(i, sector_width)))]

\* mutant of SectorBoundaries: an integer sector width (// for /), the last
\* boundary set to right_edge
SectorBoundariesFloorWidth(left_edge, right_edge, N) ==
  [i \in 0..N |->
     IF i = N THEN right_edge
     ELSE left_edge + i * ((right_edge - left_edge) \div N)]

\* lines 78-79: sector_width = (right_edge - left_edge) / num_sectors, then
\* the N + 1 boundaries
SectorBoundaries(left_edge, right_edge, N) ==
  BoundariesFrom(left_edge, FloatDiv(right_edge - left_edge, N), N)

\* lines 90-91: np.mean(sector, axis=(0,1)).astype(int).  The mean of an
\* empty block is nan, and casting nan to int is undefined: `nan_int` is what
\* the platform's conversion gives.
SectorColor(img, lo, hi, nan_int) ==
  IF hi <= lo THEN <<nan_int, nan_int, nan_int>>
  ELSE LET Sum[x \in lo..hi] ==
             IF x = hi THEN <<0, 0, 0>>
             ELSE LET p == Pixel(img, x)
                      s == Sum[x + 1]
                  IN <<p[1] + s[1], p[2] + s[2], p[3] + s[3]>>
           n == hi - lo
       IN <<Sum[lo][1] \div n, Sum[lo][2] \div n, Sum[lo][3] \div n>>

\* lines 83-92: sector_colors, sector i spanning the columns
\* [sector_boundaries[i], sector_boundaries[i+1])
SectorColors(img, sector_boundaries, N, nan_int) ==
  [i \in 0..(N - 1) |->
     SectorColor(img, sector_boundaries[i], sector_boundaries[i + 1], nan_int)]

\* process_spectrum returning None (line 113)
None == [none |-> TRUE]

\* lines 104-109: the returned record
ResultRecord(img, e, boundaries, N, nan_int) ==
  [edges |-> e.edges,
   n_peaks |-> e.n_peaks,
   sector_boundaries |-> boundaries,
   sector_colors |-> SectorColors(img, boundaries, N, nan_int),
   spectrum_width |-> e.edges[2] - e.edges[1]]

\* lines 77-109: the analysis data of one detected edge pair (n_peaks, the
\* number of peaks find_peaks kept, is carried along for the properties)
AnalysisData(img, e, N, nan_int) ==
  ResultRecord(img, e, SectorBoundaries(e.edges[1], e.edges[2], N), N, nan_int)

\* Whether lines 29-96 raise: the file does not decode (line 29 or 32), the
\* array has no channel axis (mode L: np.mean(avg_colors, axis=1), line 48),
\* or it has one column (np.gradient needs two samples, line 50)
Raises(img) == img.kind # "rgb" \/ img.w < 2

\* img.save(output_path): the annotated copy (title box, edge lines, sector
\* lines and numbers drawn over the decoded pixels)
Annotated(img, title, data) ==
  [kind |-> "annotated", pixels |-> img, title |-> title,
   edges |-> data.edges, sector_boundaries |-> data.sector_boundaries]

\* lines 99-113 once the analysis is done: img.save writes the annotated copy
\* and the data is returned, or img.save raises (the destination cannot be
\* opened for writing) and the handler of line 111 returns None
SaveAndReturn(img, output_path, title, data) ==
  {[result |-> data, saved |-> Annotated(img, title, data),
    log |-> <<"Processed image saved to", output_path>>],
   [result |-> None, saved |-> None, log |-> <<"Error processing image">>]}

\* process_spectrum, lines 27-113: every outcome of one call.  `result` is
\* the returned value, `saved` what img.save wrote (None: nothing written),
\* `log` the line printed.
ProcessSpectrum(img, output_path, title, N, nan_int) ==
  IF Raises(img)
  THEN {[result |-> None, saved |-> None, log |-> <<"Error processing image">>]}
  ELSE UNION {SaveAndReturn(img, output_path, title,
                            AnalysisData(img, e, N, nan_int)) :
              e \in EdgePairs(img)}

\* ------------------------------------------------------------------ report
\* np.round: round half to even, here of the rational num / den >= 0
RoundHalfEven(num, den) ==
  LET q == num \div den
      r == num % den
  IN IF 2 * r < den THEN q
     ELSE IF 2 * r > den THEN q + 1
     ELSE IF q % 2 = 0 THEN q ELSE q + 1

\* line 160, channel c of the sector colour:
\* int(np.round(c / 255 * 360).astype(int)).  For c in 0..255 the exact
\* c * 360 / 255 is at least 1/34 away from a tie, so the float product rounds
\* as the rational does.  For the int64 minimum (a nan cast on x86-64) the
\* product is below the int64 range and the second cast gives the minimum
\* again.
HueValue(c) ==
  IF c = Int64Min THEN Int64Min ELSE RoundHalfEven(c * 360, 255)

\* mutant of Opinion: the first threshold exclusive
OpinionExclusive(hsv) ==
  IF hsv[1] > 200 THEN "Don't sell"
  ELSE IF hsv[1] >= 125 THEN "Squeeze room"
  ELSE IF hsv[1] < 125 THEN "Sell"
  ELSE "unbound"

\* lines 161-166
Opinion(hsv) ==
  IF hsv[1] >= 200 THEN "Don't sell"
  ELSE IF hsv[1] >= 125 THEN "Squeeze room"
  ELSE IF hsv[1] < 125 THEN "Sell"
  ELSE "unbound"          \* no branch taken: `sell` keeps no value of its own

\* lines 160-166 for one sector colour
Classify(color) ==
  Opinion(<<HueValue(color[1]), HueValue(color[2]), HueValue(color[3])>>)

\* lines 158-167: the lines of the report, header first
ReportLines(sector_colors, N) ==
  [k \in 1..(N + 1) |->
     IF k = 1 THEN <<"Sector #", "Opinion">>
     ELSE <<"Sector", k - 1, Classify(sector_colors[k - 2])>>]

\* ------------------------------------------------------------- file names
\* A file name is <<stem, extension>> (os.path.splitext); a path is
\* <<folder, name>> (os.path.join).
Stems == {"a", "b"}
Extensions == {".png", ".JPG", ".txt"}
Names == Stems \X Extensions

\* f.lower() on the extension
Lower(ext) == IF ext = ".JPG" THEN ".jpg" ELSE ext

\* line 131: f.lower().endswith(('.png', '.jpg', '.jpeg', '.bmp', '.gif'))
IsImageFile(f) == Lower(f[2]) \in {".png", ".jpg", ".jpeg", ".bmp", ".gif"}

\* line 156: f"{os.path.splitext(image_file)[0]}_processed.csv"
ColorFile(f) == <<f[1], "_processed.csv">>

\* ------------------------------------------------------------------- state
VARIABLES
  pc,              \* where the run is: makedirs, listdir, loop, main, done,
                   \* raised (an exception left process_folder), or idle
  folders,         \* the folders that exist, among "in" and "out"
  same_folder,     \* output_folder names the input folder
  can_create,      \* os.makedirs may create the output folder
  listing,         \* os.listdir(input_folder), in its order
  fs,              \* the files: path -> content
  source_files,    \* fs as it was before the run (never changed)
  nan_int,         \* what casting nan to int gives on this platform
  num_sectors,     \* num_sectors
  image_files,     \* image_files (line 130)
  pos,             \* index into image_files of the next iteration
  all_results,     \* all_results: image_file -> result
  printed,         \* the lines printed so far
  image,           \* SpecSpectrum: the decoded input of one process_spectrum
  result,          \* SpecSpectrum: what that call returned
  left_edge,       \* SpecSectors: the edge pair
  right_edge,
  sector_boundaries, \* SpecSectors: the boundaries of lines 78-79
  color,           \* SpecClassify: one sector colour
  sell             \* SpecClassify: its label

folderVars == <<pc, folders, same_folder, can_create, listing, fs, source_files,
                image_files, pos, all_results, printed>>
spectrumVars == <<image, result>>
sectorVars == <<left_edge, right_edge, sector_boundaries>>
classifyVars == <<color, sell>>
vars == <<folderVars, spectrumVars, sectorVars, classifyVars, nan_int, num_sectors>>

Unset == "unset"
Pending == [pending |-> TRUE]     \* process_spectrum has not returned yet
NoFiles == [p \in {} |-> None]
NoResults == [f \in {} |-> None]
NanInts == {Int64Min, 0}     \* x86-64 gives the int64 minimum, AArch64 gives 0

FolderIdle ==
  /\ pc = "idle" /\ folders = {} /\ same_folder = FALSE /\ can_create = FALSE
  /\ listing = <<>> /\ fs = NoFiles /\ source_files = NoFiles
  /\ image_files = <<>> /\ pos = 0 /\ all_results = NoResults /\ printed = <<>>
SpectrumIdle == image = None /\ result = Pending
SectorIdle == left_edge = 0 /\ right_edge = 0 /\ sector_boundaries = <<>>
ClassifyIdle == color = <<0, 0, 0>> /\ sell = Unset

\* ------------------------------------------------- SpecSpectrum: one image
SectorCounts == {OtherSectors, DefaultSectors}

\* the decoded inputs: every banded image up to MaxWidth columns (a strong
\* band alone, a strong band with a wide mark, a weak band with a narrow
\* mark; a = b = 0 is the image without a band), a mode-L image and a file
\* that does not decode
InitSpectrum ==
  /\ FolderIdle /\ SectorIdle /\ ClassifyIdle
  /\ nan_int \in NanInts
  /\ num_sectors = DefaultSectors
  /\ result = Pending
  /\ \/ image \in {[kind |-> "corrupt"], [kind |-> "gray", w |-> MaxWidth]}
     \/ \E w \in 1..MaxWidth : \E a \in 0..w : \E b \in a..w :
        \E bm \in {<<StrongBand, 0>>, <<StrongBand, WideMark>>,
                   <<WeakBand, NarrowMark>>} :
          /\ bm[2] <= w
          /\ a = b => (a = 0 /\ bm[1] = StrongBand)
          /\ image = [kind |-> "rgb", w |-> w, a |-> a, b |-> b,
                      band |-> bm[1], mark |-> bm[2]]

\* process_spectrum(input_path, output_path, title, num_sectors) on `image`
CallProcessSpectrum ==
  /\ result = Pending
  /\ \E N \in SectorCounts :
     \E o \in ProcessSpectrum(image, <<"out", <<"a", ".png">>>>, "a", N, nan_int) :
       /\ result' = o.result
       /\ num_sectors' = N
  /\ UNCHANGED <<folderVars, sectorVars, classifyVars, image, nan_int>>

NextSpectrum == CallProcessSpectrum
SpecSpectrum == InitSpectrum /\ [][NextSpectrum]_vars

\* ------------------------------------------- SpecSectors: lines 78-79 alone
InitSectors ==
  /\ FolderIdle /\ SpectrumIdle /\ ClassifyIdle
  /\ nan_int = 0
  /\ num_sectors \in 1..MaxSectors
  /\ left_edge \in 0..MaxEdge
  /\ right_edge \in left_edge..MaxEdge
  /\ sector_boundaries = <<>>

ComputeSectorBoundaries ==
  /\ sector_boundaries = <<>>
  /\ sector_boundaries' = SectorBoundaries(left_edge, right_edge, num_sectors)
  /\ UNCHANGED <<folderVars, spectrumVars, classifyVars, left_edge, right_edge,
                 nan_int, num_sectors>>

NextSectors == ComputeSectorBoundaries
SpecSectors == InitSectors /\ [][NextSectors]_vars

\* ---------------------------------------- SpecClassify: lines 160-166 alone
OtherChannels == {0, 124, 125, 200, 255}

InitClassify ==
  /\ FolderIdle /\ SpectrumIdle /\ SectorIdle
  /\ nan_int = 0
  /\ num_sectors = DefaultSectors
  /\ color \in (0..255) \X OtherChannels \X OtherChannels
  /\ sell = Unset

ClassifySector ==
  /\ sell = Unset
  /\ sell' = Classify(color)
  /\ UNCHANGED <<folderVars, spectrumVars, sectorVars, color, nan_int, num_sectors>>

NextClassify == ClassifySector
SpecClassify == InitClassify /\ [][NextClassify]_vars

\* ------------------------------------------------- Spec: one run of __main__
\* What an entry of the input folder may hold: an image whose spectrum is
\* wider than 32 columns, a small image without a band, a file that does not
\* decode; an entry without an image extension is never opened.
WideImage ==
  [kind |-> "rgb", w |-> 40, a |-> 2, b |-> 36, band |-> <<60, 120, 200>>, mark |-> 0]
SmallImage ==
  [kind |-> "rgb", w |-> 8, a |-> 0, b |-> 0, band |-> StrongBand, mark |-> 0]
ImageContents == {WideImage, SmallImage, [kind |-> "corrupt"]}
OtherContent == [kind |-> "other"]

Range(s) == {s[k] : k \in DOMAIN s}
Listings ==
  {s \in UNION {[1..n -> Names] : n \in 0..MaxFiles} :
     \A i, j \in DOMAIN s : i # j => s[i] # s[j]}

\* output_folder as a folder of the model
OutputFolder == IF same_folder THEN "in" ELSE "out"

Init ==
  /\ SpectrumIdle /\ SectorIdle /\ ClassifyIdle
  /\ nan_int \in NanInts
  /\ num_sectors = DefaultSectors
  /\ same_folder \in BOOLEAN
  /\ can_create \in BOOLEAN
  /\ folders \in SUBSET {"in", "out"}
  /\ same_folder => "out" \notin folders
  /\ listing \in Listings
  /\ "in" \notin folders => listing = <<>>
  /\ \E c \in [{f \in Range(listing) : IsImageFile(f)} -> ImageContents] :
       fs = [p \in {<<"in", f>> : f \in Range(listing)} |->
               IF IsImageFile(p[2]) THEN c[p[2]] ELSE OtherContent]
  /\ source_files = fs
  /\ image_files = <<>>
  /\ pos = 0
  /\ all_results = NoResults
  /\ printed = << <<"Processing spectrum images...">> >>
  /\ pc = "makedirs"

\* line 127: os.makedirs(output_folder, exist_ok=True)
MakeDirs ==
  /\ pc = "makedirs"
  /\ OutputFolder \in folders \/ can_create
  /\ folders' = folders \cup {OutputFolder}
  /\ pc' = "listdir"
  /\ UNCHANGED <<same_folder, can_create, listing, fs, source_files, image_files,
                 pos, all_results, printed, spectrumVars, sectorVars,
                 classifyVars, nan_int, num_sectors>>

\* line 127 raising (the folder is missing and cannot be created): nothing in
\* process_folder or __main__ catches it
MakeDirsRaises ==
  /\ pc = "makedirs"
  /\ OutputFolder \notin folders /\ ~can_create
  /\ pc' = "raised"
  /\ UNCHANGED <<folders, same_folder, can_create, listing, fs, source_files,
                 image_files, pos, all_results, printed, spectrumVars,
                 sectorVars, classifyVars, nan_int, num_sectors>>

\* lines 130-133: the image files of the input folder, and the empty results
ListDir ==
  /\ pc = "listdir"
  /\ "in" \in folders
  /\ image_files' = SelectSeq(listing, IsImageFile)
  /\ all_results' = NoResults
  /\ pos' = 1
  /\ pc' = "loop"
  /\ UNCHANGED <<folders, same_folder, can_create, listing, fs, source_files,
                 printed, spectrumVars, sectorVars, classifyVars, nan_int,
                 num_sectors>>

\* line 130 raising (no input folder): os.listdir is outside every try
ListDirRaises ==
  /\ pc = "listdir"
  /\ "in" \notin folders
  /\ pc' = "raised"
  /\ UNCHANGED <<folders, same_folder, can_create, listing, fs, source_files,
                 image_files, pos, all_results, printed, spectrumVars,
                 sectorVars, classifyVars, nan_int, num_sectors>>

\* lines 156-167: the report of one result
Report(res) ==
  [kind |-> "report", lines |-> ReportLines(res.sector_colors, num_sectors)]

\* lines 152-170 after process_spectrum returned `o`: nothing more for None;
\* otherwise the result is stored first and the report written after it, and
\* open(color_file, "w") raising (csv_ok false) is caught by line 169
StoreAndReport(f, output_path, o, csv_ok) ==
  IF o.result = None
  THEN /\ csv_ok
       /\ UNCHANGED <<all_results, fs>>
       /\ printed' = printed \o << <<"Processing", f>>, o.log >>
  ELSE /\ all_results' = (f :> o.result) @@ all_results
       /\ fs' = IF csv_ok
                THEN (<<OutputFolder, ColorFile(f)>> :> Report(o.result))
                     @@ (output_path :> o.saved) @@ fs
                ELSE (output_path :> o.saved) @@ fs
       /\ printed' = printed \o << <<"Processing", f>>, o.log >>
                       \o (IF csv_ok THEN <<>> ELSE << <<"Error processing", f>> >>)

\* lines 135-170: one iteration of the loop, for image_files[pos]
ProcessFile ==
  /\ pc = "loop"
  /\ pos <= Len(image_files)
  /\ LET image_file == image_files[pos]
         input_path == <<"in", image_file>>
         output_path == <<OutputFolder, image_file>>
         title == image_file[1]
     IN \E o \in ProcessSpectrum(fs[input_path], output_path, title,
                                 num_sectors, nan_int) :
        \E csv_ok \in BOOLEAN :
          StoreAndReport(image_file, output_path, o, csv_ok)
  /\ pos' = pos + 1
  /\ UNCHANGED <<pc, folders, same_folder, can_create, listing, source_files,
                 image_files, spectrumVars, sectorVars, classifyVars, nan_int,
                 num_sectors>>

\* line 172: return all_results
Return ==
  /\ pc = "loop"
  /\ pos > Len(image_files)
  /\ pc' = "main"
  /\ UNCHANGED <<folders, same_folder, can_create, listing, fs, source_files,
                 image_files, pos, all_results, printed, spectrumVars,
                 sectorVars, classifyVars, nan_int, num_sectors>>

\* lines 188-190: the summary, in the insertion order of all_results
SummaryLines ==
  LET done == SelectSeq(image_files, LAMBDA f : f \in DOMAIN all_results)
  IN << <<"Processed images:", Cardinality(DOMAIN all_results)>> >>
     \o [k \in 1..Len(done) |-> <<"-", done[k], all_results[done[k]].spectrum_width>>]

\* mutant of MainSummary: the summary printed without the test of line 187
MainSummaryUnguarded ==
  /\ pc = "main"
  /\ printed' = printed \o << <<"Processing complete.">> >> \o SummaryLines
  /\ pc' = "done"
  /\ UNCHANGED <<folders, same_folder, can_create, listing, fs, source_files,
                 image_files, pos, all_results, spectrumVars, sectorVars,
                 classifyVars, nan_int, num_sectors>>

\* lines 186-190
MainSummary ==
  /\ pc = "main"
  /\ printed' = printed \o << <<"Processing complete.">> >>
                  \o (IF DOMAIN all_results # {} THEN SummaryLines ELSE <<>>)
  /\ pc' = "done"
  /\ UNCHANGED <<folders, same_folder, can_create, listing, fs, source_files,
                 image_files, pos, all_results, spectrumVars, sectorVars,
                 classifyVars, nan_int, num_sectors>>

Next ==
  \/ MakeDirs \/ MakeDirsRaises \/ ListDir \/ ListDirRaises
  \/ ProcessFile \/ Return \/ MainSummary
Spec == Init /\ [][Next]_vars

\* =================================================================== claims
Returned == result # Pending /\ result # None
Finished == pc \in {"main", "done"}

\* C1 (as stated): the edge pair of every processed image satisfies
\* 0 <= left_edge < right_edge <= floor(0.9 * width) - 1, except that the
\* fallback (fewer than 2 peaks) may give left_edge = right_edge, and only
\* for widths below 4.
ClaimC1 ==
  Returned =>
    LET l == result.edges[1]
        r == result.edges[2]
    IN /\ 0 <= l
       /\ r <= (9 * image.w) \div 10 - 1
       /\ l < r \/ (l = r /\ result.n_peaks < 2 /\ image.w < 4)

\* C2 (as stated): the sector boundaries are num_sectors + 1 columns,
\* non-decreasing, the first equal to left_edge and the last equal to
\* right_edge.
ClaimC2 ==
  Returned =>
    LET sb == result.sector_boundaries
    IN /\ DOMAIN sb = 0..num_sectors
       /\ \A i \in 0..(num_sectors - 1) : sb[i] <= sb[i + 1]
       /\ sb[0] = result.edges[1]
       /\ sb[num_sectors] = result.edges[2]

\* C3 (as stated): every channel of every sector colour of every processed
\* image is an integer in 0..255, sectors spanning zero columns included.
ClaimC3 ==
  \A f \in DOMAIN all_results :
    \A i \in DOMAIN all_results[f].sector_colors :
      \A c \in 1..3 : all_results[f].sector_colors[i][c] \in 0..255

\* C4: the label depends on the red channel alone, through
\* value = round(red / 255 * 360): 0..124 gives "Sell", 125..199 gives
\* "Squeeze room", 200..360 gives "Don't sell"; every colour gets exactly one
\* of the three.
TheoremC4 ==
  sell # Unset =>
    LET value == (2 * 360 * color[1] + 255) \div (2 * 255)
    IN \/ value \in 0..124 /\ sell = "Sell"
       \/ value \in 125..199 /\ sell = "Squeeze room"
       \/ value \in 200..360 /\ sell = "Don't sell"

\* C4 witness: a colour labelled by its red channel (value 199) although its
\* green and blue channels lie in the two other classes
WitnessC4 == sell = "Squeeze room" /\ color = <<141, 255, 0>>

\* the "Processing <file>..." lines, in the order printed
Attempts ==
  LET lines == SelectSeq(printed, LAMBDA l : l[1] = "Processing")
  IN [k \in 1..Len(lines) |-> lines[k][2]]

\* the file was announced, its image was saved, and no error names it
Succeeded(f) ==
  /\ \E k \in 1..(Len(printed) - 1) :
       /\ printed[k][1] = "Processing" /\ printed[k][2] = f
       /\ printed[k + 1][1] = "Processed image saved to"
  /\ ~\E k \in 1..Len(printed) :
       printed[k][1] = "Error processing" /\ printed[k][2] = f

\* C5 (as stated): when process_folder returns, every image file was
\* attempted once, in listing order, and the result set holds exactly the
\* files whose processing succeeded, none that failed.
ClaimC5 ==
  Finished =>
    /\ Attempts = image_files
    /\ DOMAIN all_results = {f \in Range(image_files) : Succeeded(f)}

\* C6 (as stated): no exception leaves process_folder, whatever the folders.
ClaimC6 == pc # "raised"

\* C7 (as stated): every input file keeps its contents, and whatever else is
\* written is an annotated copy or a report in the output folder.
ClaimC7 ==
  /\ \A p \in DOMAIN source_files : p \in DOMAIN fs /\ fs[p] = source_files[p]
  /\ \A p \in DOMAIN fs \ DOMAIN source_files :
       p[1] = OutputFolder /\ fs[p].kind \in {"annotated", "report"}

NoMatchingFiles == pc = "done" /\ image_files = <<>>

SectorWidth(i) == sector_boundaries[i + 1] - sector_boundaries[i]

\* C9: with left_edge <= right_edge and N >= 1, the widths of any two of the
\* N sectors differ by at most one column.
TheoremC9 ==
  sector_boundaries # <<>> =>
    \A i, j \in 0..(num_sectors - 1) : SectorWidth(i) - SectorWidth(j) <= 1

\* C9 witness: boundaries whose float arithmetic fell short of right_edge
\* (the last sector lost a column) with sectors of two different widths
WitnessC9 ==
  /\ sector_boundaries # <<>>
  /\ sector_boundaries[num_sectors] # right_edge
  /\ \E i, j \in 0..(num_sectors - 1) : SectorWidth(i) - SectorWidth(j) = 1

\* a report as the format asks: the header, then N lines numbered 1..N
WellFormedReport(lines) ==
  /\ DOMAIN lines = 1..(num_sectors + 1)
  /\ lines[1] = <<"Sector #", "Opinion">>
  /\ \A k \in 1..num_sectors :
       /\ lines[k + 1][1] = "Sector" /\ lines[k + 1][2] = k
       /\ lines[k + 1][3] \in {"Sell", "Squeeze room", "Don't sell"}

ImageSaved(f) ==
  /\ <<OutputFolder, f>> \in DOMAIN fs
  /\ fs[<<OutputFolder, f>>].kind = "annotated"

ReportWritten(f) ==
  /\ <<OutputFolder, ColorFile(f)>> \in DOMAIN fs
  /\ WellFormedReport(fs[<<OutputFolder, ColorFile(f)>>].lines)

\* C10 (as stated): when process_folder returns, a file is in the result set
\* exactly when its annotated image was saved and a complete report stands
\* under its stem, and a file that returned None has no annotated image.
\* (Read in the claim's favour: a report of another file with the same stem
\* counts.)
ClaimC10 ==
  Finished =>
    \A f \in Range(image_files) :
      /\ f \in DOMAIN all_results <=> (ImageSaved(f) /\ ReportWritten(f))
      /\ f \notin DOMAIN all_results => ~ImageSaved(f)
====
